---- MODULE Spec2Model ----
(***************************************************************************)
(* A model of the minilzo wrapper (src/src/lib.rs): the two public         *)
(* operations compress and decompress, the output size estimator, the      *)
(* LzoError status enumeration with its Display text, and the two native   *)
(* LZO1X entry points they call.                                           *)
(*                                                                         *)
(* Memory is explicit: every buffer a call creates is a region of `mem`,   *)
(* the native entry points read and write regions through the addresses    *)
(* they are handed, and a call's steps interleave with another call's.     *)
(***************************************************************************)
EXTENDS Integers, Sequences, FiniteSets, TLC

(***************************************************************************)
(* Bounds of the model.                                                    *)
(***************************************************************************)
\* Longest input byte sequence of a call when one call runs at a time.
MaxLen == 4

\* Longest input byte sequence of a call when two calls run concurrently.
ConcLen == 1

\* Width in bits of the platform word (usize), scaled down.
UsizeBits == 8

\* The byte values inputs are built from: 17 is the stream's marker byte and
\* 0 the byte of its end-of-stream offset.
InBytes == {0, 17}

\* The concurrent callers (threads).
Calls == {1, 2}

\* The addresses regions live at: a call owns at most two regions at a time
\* (output buffer and scratch workspace).
Addr == 1 .. (2 * Cardinality(Calls))

(***************************************************************************)
(* Platform integers.                                                      *)
(***************************************************************************)
RECURSIVE Pow2(_)
Pow2(k) == IF k = 0 THEN 1 ELSE 2 * Pow2(k - 1)

\* One past the largest usize.
UsizeModulus == Pow2(UsizeBits)

\* isize::MAX, the largest length a slice or an allocation can have.
IsizeMax == Pow2(UsizeBits - 1) - 1

\* usize addition as the release build performs it (wrapping).
usize_add(a, b) == (a + b) % UsizeModulus

\* Whether usize addition overflows (the debug build panics there).
usize_add_overflows(a, b) == a + b >= UsizeModulus

RECURSIVE Zeros(_)
Zeros(n) == IF n <= 0 THEN << >> ELSE <<0>> \o Zeros(n - 1)

RECURSIVE Fill(_, _)
Fill(n, x) == IF n <= 0 THEN << >> ELSE <<x>> \o Fill(n - 1, x)

Take(s, n) == SubSeq(s, 1, IF n <= Len(s) THEN n ELSE Len(s))

\* All sequences over S of length at most n.
RECURSIVE SeqsUpTo(_, _)
SeqsUpTo(S, n) ==
    IF n = 0 THEN {<< >>}
    ELSE LET shorter == SeqsUpTo(S, n - 1)
         IN  shorter \cup {Append(s, x) : s \in {r \in shorter : Len(r) = n - 1}, x \in S}

(***************************************************************************)
(* LzoError: the status enumeration, #[repr(i32)].                         *)
(***************************************************************************)
LzoError ==
    { "Ok", "Error", "OutOfMemory", "NotCompressible", "InputOverrun",
      "OutputOverrun", "LookbehindOverrun", "EofNotFound", "InputNotConsumed",
      "NotYetImplemented", "InvalidArgument", "InvalidAlignment",
      "OutputNotConsumed", "InternalError" }

\* The i32 value of each variant.
Discriminant(self) ==
    CASE self = "Ok" -> 0
      [] self = "Error" -> 0 - 1
      [] self = "OutOfMemory" -> 0 - 2
      [] self = "NotCompressible" -> 0 - 3
      [] self = "InputOverrun" -> 0 - 4
      [] self = "OutputOverrun" -> 0 - 5
      [] self = "LookbehindOverrun" -> 0 - 6
      [] self = "EofNotFound" -> 0 - 7
      [] self = "InputNotConsumed" -> 0 - 8
      [] self = "NotYetImplemented" -> 0 - 9
      [] self = "InvalidArgument" -> 0 - 10
      [] self = "InvalidAlignment" -> 0 - 11
      [] self = "OutputNotConsumed" -> 0 - 12
      [] self = "InternalError" -> 0 - 99

\* The i32 values that are the value of some variant.
Discriminants == {Discriminant(e) : e \in LzoError}

\* A value of type LzoError whose bits are the value of no variant: what a
\* native status outside Discriminants becomes.
InvalidLzoError == "(invalid discriminant)"

\* What the Rust side holds after an extern "C" function declared to return
\* LzoError hands back the C int `status`: the variant with that value, and
\* for a value of no variant (undefined behaviour: no conversion is written,
\* the bits are taken as they are) whatever the build makes of it, an invalid
\* value or any variant.
extern_return(status) ==
    IF status \in Discriminants
    THEN {e \in LzoError : Discriminant(e) = status}
    ELSE LzoError \cup {InvalidLzoError}

\* The match of Display::fmt: the text of each variant, as its characters'
\* codes.
fmt_match(self) ==
    CASE self = "Ok" ->
           \* "ok"
           <<111, 107>>
      [] self = "Error" ->
           \* "error"
           <<101, 114, 114, 111, 114>>
      [] self = "OutOfMemory" ->
           \* "out of memory"
           <<111, 117, 116, 32, 111, 102, 32, 109, 101, 109, 111, 114, 121>>
      [] self = "NotCompressible" ->
           \* "not compressible"
           <<110, 111, 116, 32, 99, 111, 109, 112, 114, 101, 115, 115, 105, 98, 108, 101>>
      [] self = "InputOverrun" ->
           \* "input overrun"
           <<105, 110, 112, 117, 116, 32, 111, 118, 101, 114, 114, 117, 110>>
      [] self = "OutputOverrun" ->
           \* "output overrun"
           <<111, 117, 116, 112, 117, 116, 32, 111, 118, 101, 114, 114, 117, 110>>
      [] self = "LookbehindOverrun" ->
           \* "lookbehind overrun"
           <<108, 111, 111, 107, 98, 101, 104, 105, 110, 100, 32, 111, 118, 101, 114, 114, 117, 110>>
      [] self = "EofNotFound" ->
           \* "EOF not found"
           <<69, 79, 70, 32, 110, 111, 116, 32, 102, 111, 117, 110, 100>>
      [] self = "InputNotConsumed" ->
           \* "input not consumed"
           <<105, 110, 112, 117, 116, 32, 110, 111, 116, 32, 99, 111, 110, 115, 117, 109, 101, 100>>
      [] self = "NotYetImplemented" ->
           \* "not yet implemented"
           <<110, 111, 116, 32, 121, 101, 116, 32, 105, 109, 112, 108, 101, 109, 101, 110, 116, 101, 100>>
      [] self = "InvalidArgument" ->
           \* "invalid argument"
           <<105, 110, 118, 97, 108, 105, 100, 32, 97, 114, 103, 117, 109, 101, 110, 116>>
      [] self = "InvalidAlignment" ->
           \* "invalid alignment"
           <<105, 110, 118, 97, 108, 105, 100, 32, 97, 108, 105, 103, 110, 109, 101, 110, 116>>
      [] self = "OutputNotConsumed" ->
           \* "output not consumed"
           <<111, 117, 116, 112, 117, 116, 32, 110, 111, 116, 32, 99, 111, 110, 115, 117, 109, 101, 100>>
      [] self = "InternalError" ->
           \* "internal error"
           <<105, 110, 116, 101, 114, 110, 97, 108, 32, 101, 114, 114, 111, 114>>

\* Display with one arm's text pasted from its neighbour's.
Display_pasted_arm(self) ==
    fmt_match(IF self = "InputOverrun" THEN "OutputOverrun" ELSE self)

\* impl Display for LzoError: fmt writes the matched text.
Display(self) == fmt_match(self)

(***************************************************************************)
(* The output size estimator and the workspace size.                       *)
(***************************************************************************)
\* output_buffer_size without its last term.
output_buffer_size_no_3(input_size) ==
    usize_add(usize_add(input_size, input_size \div 16), 64)

\* The value the release build returns (each + wraps).
output_buffer_size(input_size) ==
    usize_add(usize_add(usize_add(input_size, input_size \div 16), 64), 3)

\* Whether one of its three additions overflows: the debug build panics.
output_buffer_size_overflows(input_size) ==
    \/ usize_add_overflows(input_size, input_size \div 16)
    \/ usize_add_overflows(usize_add(input_size, input_size \div 16), 64)
    \/ usize_add_overflows(
           usize_add(usize_add(input_size, input_size \div 16), 64), 3)

\* 16384 words of the platform's size, in bytes.
LZO1X_1_MEM_COMPRESS == 16384 * (UsizeBits \div 8)

\* Vec::resize(new_len, value): shortens, or appends `value`.
vec_resize(v, new_len, value) ==
    IF new_len <= Len(v)
    THEN SubSeq(v, 1, new_len)
    ELSE v \o Fill(new_len - Len(v), value)

(***************************************************************************)
(* The native codec (LZO1X), which lives outside src/.  The wrapper        *)
(* treats it as opaque; it is modelled here by the byte stream it          *)
(* produces and accepts, so that a round trip is something to check and    *)
(* not an assumption.                                                      *)
(***************************************************************************)
\* The native status values the two entry points return.
LZO_E_OK == Discriminant("Ok")
LZO_E_INPUT_OVERRUN == Discriminant("InputOverrun")
LZO_E_OUTPUT_OVERRUN == Discriminant("OutputOverrun")
LZO_E_LOOKBEHIND_OVERRUN == Discriminant("LookbehindOverrun")
LZO_E_INPUT_NOT_CONSUMED == Discriminant("InputNotConsumed")

\* The bytes lzo1x_1_compress writes for the input `src` of at most 20 bytes
\* (it searches for matches only in longer inputs): one literal run,
\* introduced by the byte 17 + src_len unless it is empty, then the
\* end-of-stream marker 17 0 0.
lzo1x_1_compress(src) ==
    (IF Len(src) > 0 THEN <<17 + Len(src)>> \o src ELSE << >>) \o <<17, 0, 0>>

\* NEED_IP(k), NEED_OP(k): k more bytes can be read, written.
NEED_IP(src, ip, k) == Len(src) - ip >= k
NEED_OP(out, cap, k) == cap - Len(out) >= k

\* *ip, ip counting the bytes consumed.
Peek(src, ip) == src[ip + 1]

\* The decoder's result: the status and the bytes written to dst.
Ret(status, out) == [status |-> status, out |-> out]

\* while (*ip == 0) { t += 255; ip++; NEED_IP(1); }
RECURSIVE ZeroRun(_, _, _)
ZeroRun(src, ip, t) ==
    IF Peek(src, ip) = 0
    THEN IF NEED_IP(src, ip + 1, 1)
         THEN ZeroRun(src, ip + 1, t + 255)
         ELSE [ok |-> FALSE, ip |-> ip + 1, t |-> t + 255]
    ELSE [ok |-> TRUE, ip |-> ip, t |-> t]

\* Copy k bytes from m_off bytes back in the output, one at a time (the
\* source may overlap the bytes being written).
RECURSIVE CopyMatch(_, _, _)
CopyMatch(out, m_off, k) ==
    IF k = 0 THEN out
    ELSE CopyMatch(Append(out, out[Len(out) - m_off + 1]), m_off, k - 1)

\* The literal bytes ip .. ip + k - 1 of the input.
Literals(src, ip, k) == SubSeq(src, ip + 1, ip + k)

RECURSIVE dec_loop(_, _, _, _)
RECURSIVE dec_first_literal_run(_, _, _, _)
RECURSIVE dec_match(_, _, _, _, _)
RECURSIVE dec_match_done(_, _, _, _)
RECURSIVE dec_match_next(_, _, _, _, _)

\* eof_found: the stream ended; every input byte must have been used.
dec_eof_found(src, ip, out) ==
    Ret(IF ip = Len(src) THEN LZO_E_OK
        ELSE IF ip < Len(src) THEN LZO_E_INPUT_NOT_CONSUMED
        ELSE LZO_E_INPUT_OVERRUN, out)

\* The main loop's head: a literal run, or a match.
dec_loop(src, cap, ip, out) ==
    IF ~NEED_IP(src, ip, 3) THEN Ret(LZO_E_INPUT_OVERRUN, out)
    ELSE LET t0 == Peek(src, ip)
         IN  IF t0 >= 16 THEN dec_match(src, cap, ip + 1, t0, out)
             ELSE LET z  == IF t0 = 0 THEN ZeroRun(src, ip + 1, 0)
                            ELSE [ok |-> TRUE, ip |-> ip + 1, t |-> t0]
                      t  == IF t0 = 0 THEN z.t + 15 + Peek(src, z.ip) ELSE t0
                      jp == IF t0 = 0 THEN z.ip + 1 ELSE z.ip
                  IN  IF ~z.ok THEN Ret(LZO_E_INPUT_OVERRUN, out)
                      ELSE IF ~NEED_OP(out, cap, t + 3) THEN Ret(LZO_E_OUTPUT_OVERRUN, out)
                      ELSE IF ~NEED_IP(src, jp, t + 6) THEN Ret(LZO_E_INPUT_OVERRUN, out)
                      ELSE dec_first_literal_run(src, cap, jp + t + 3,
                                                 out \o Literals(src, jp, t + 3))

\* first_literal_run: what follows a literal run.
dec_first_literal_run(src, cap, ip, out) ==
    LET t == Peek(src, ip)
    IN  IF t >= 16 THEN dec_match(src, cap, ip + 1, t, out)
        ELSE LET m_off == 1 + 2048 + (t \div 4) + Peek(src, ip + 1) * 4
             IN  IF m_off > Len(out) THEN Ret(LZO_E_LOOKBEHIND_OVERRUN, out)
                 ELSE IF ~NEED_OP(out, cap, 3) THEN Ret(LZO_E_OUTPUT_OVERRUN, out)
                 ELSE dec_match_done(src, cap, ip + 2, CopyMatch(out, m_off, 3))

\* match: t is the instruction byte just read, ip the byte after it.
dec_match(src, cap, ip, t, out) ==
    IF t >= 64 THEN
        LET m_off == 1 + ((t \div 4) % 8) + Peek(src, ip) * 8
            len   == (t \div 32) - 1
        IN  IF m_off > Len(out) THEN Ret(LZO_E_LOOKBEHIND_OVERRUN, out)
            ELSE IF ~NEED_OP(out, cap, len + 2) THEN Ret(LZO_E_OUTPUT_OVERRUN, out)
            ELSE dec_match_done(src, cap, ip + 1, CopyMatch(out, m_off, len + 2))
    ELSE IF t >= 32 THEN
        LET long == (t % 32) = 0
            z    == IF long THEN ZeroRun(src, ip, 0)
                    ELSE [ok |-> TRUE, ip |-> ip, t |-> t % 32]
            len  == IF long THEN z.t + 31 + Peek(src, z.ip) ELSE z.t
            jp   == IF long THEN z.ip + 1 ELSE z.ip
            m_off == 1 + (Peek(src, jp) \div 4) + Peek(src, jp + 1) * 64
        IN  IF ~z.ok THEN Ret(LZO_E_INPUT_OVERRUN, out)
            ELSE IF long /\ ~NEED_IP(src, jp, 2) THEN Ret(LZO_E_INPUT_OVERRUN, out)
            ELSE IF m_off > Len(out) THEN Ret(LZO_E_LOOKBEHIND_OVERRUN, out)
            ELSE IF ~NEED_OP(out, cap, len + 2) THEN Ret(LZO_E_OUTPUT_OVERRUN, out)
            ELSE dec_match_done(src, cap, jp + 2, CopyMatch(out, m_off, len + 2))
    ELSE IF t >= 16 THEN
        LET base == ((t \div 8) % 2) * 16384
            long == (t % 8) = 0
            z    == IF long THEN ZeroRun(src, ip, 0)
                    ELSE [ok |-> TRUE, ip |-> ip, t |-> t % 8]
            len  == IF long THEN z.t + 7 + Peek(src, z.ip) ELSE z.t
            jp   == IF long THEN z.ip + 1 ELSE z.ip
            dist == base + (Peek(src, jp) \div 4) + Peek(src, jp + 1) * 64
            m_off == dist + 16384
        IN  IF ~z.ok THEN Ret(LZO_E_INPUT_OVERRUN, out)
            ELSE IF long /\ ~NEED_IP(src, jp, 2) THEN Ret(LZO_E_INPUT_OVERRUN, out)
            ELSE IF dist = 0 THEN dec_eof_found(src, jp + 2, out)
            ELSE IF m_off > Len(out) THEN Ret(LZO_E_LOOKBEHIND_OVERRUN, out)
            ELSE IF ~NEED_OP(out, cap, len + 2) THEN Ret(LZO_E_OUTPUT_OVERRUN, out)
            ELSE dec_match_done(src, cap, jp + 2, CopyMatch(out, m_off, len + 2))
    ELSE
        LET m_off == 1 + (t \div 4) + Peek(src, ip) * 4
        IN  IF m_off > Len(out) THEN Ret(LZO_E_LOOKBEHIND_OVERRUN, out)
            ELSE IF ~NEED_OP(out, cap, 2) THEN Ret(LZO_E_OUTPUT_OVERRUN, out)
            ELSE dec_match_done(src, cap, ip + 1, CopyMatch(out, m_off, 2))

\* match_done: the low two bits of the byte before last count the literals
\* that follow the match.
dec_match_done(src, cap, ip, out) ==
    LET t == Peek(src, ip - 2) % 4
    IN  IF t = 0 THEN dec_loop(src, cap, ip, out)
        ELSE dec_match_next(src, cap, ip, t, out)

\* match_next: 1 to 3 literals, then the next instruction byte.
dec_match_next(src, cap, ip, t, out) ==
    IF ~NEED_OP(out, cap, t) THEN Ret(LZO_E_OUTPUT_OVERRUN, out)
    ELSE IF ~NEED_IP(src, ip, t + 3) THEN Ret(LZO_E_INPUT_OVERRUN, out)
    ELSE dec_match(src, cap, ip + t + 1, Peek(src, ip + t),
                   out \o Literals(src, ip, t))

\* lzo1x_decompress_safe(src, src_len, dst, &dst_len, NULL) with dst_len = cap
\* on entry: the status it returns and the bytes it wrote at dst, whose count
\* it leaves in dst_len whatever the status.  It never writes more than cap
\* bytes.
lzo1x_decompress_safe(src, cap) ==
    IF ~NEED_IP(src, 0, 1) THEN Ret(LZO_E_INPUT_OVERRUN, << >>)
    ELSE IF Peek(src, 0) > 17 THEN
        LET t == Peek(src, 0) - 17
        IN  IF t < 4 THEN dec_match_next(src, cap, 1, t, << >>)
            ELSE IF ~NEED_OP(<< >>, cap, t) THEN Ret(LZO_E_OUTPUT_OVERRUN, << >>)
            ELSE IF ~NEED_IP(src, 1, t + 3) THEN Ret(LZO_E_INPUT_OVERRUN, << >>)
            ELSE dec_first_literal_run(src, cap, 1 + t, Literals(src, 1, t))
    ELSE dec_loop(src, cap, 0, << >>)

(***************************************************************************)
(* Memory.  A region is a block of `len` bytes; `bytes` holds its leading  *)
(* bytes and every byte after them is zero (a fresh region is all zero).   *)
(***************************************************************************)
FreeRegion == [live |-> FALSE, len |-> 0, bytes |-> << >>]

\* vec![0u8; n] and [0u8; n]: n zero bytes.
ZeroedRegion(n) == [live |-> TRUE, len |-> n, bytes |-> << >>]

\* The first k bytes of a region.
Content(r, k) == Take(r.bytes \o Zeros(k - Len(r.bytes)), k)

\* The region after `written` is stored at its start.
Store(r, written) ==
    [r EXCEPT !.bytes = written \o SubSeq(r.bytes, Len(written) + 1, Len(r.bytes))]

\* Whether `n` bytes at the region's start are the region's to access.
InBounds(r, n) == r.live /\ n <= r.len

Min(S) == CHOOSE x \in S : \A y \in S : x <= y

\* Where a call's new output vector is placed: memory no live region holds.
alloc_output(m) == Min({a \in Addr : ~m[a].live})

\* The workspace as one static array, the same for every call.
alloc_wrkmem_static(m) == 2 * Cardinality(Calls)

\* Where a call's workspace array is placed: its own frame, memory no live
\* region holds.
alloc_wrkmem(m) == Min({a \in Addr : ~m[a].live})

(***************************************************************************)
(* The wrapper's two operations, as the values their statements compute.   *)
(***************************************************************************)
NoResult == [kind |-> "None", bytes |-> << >>, err |-> "Ok"]
Ok(v) == [kind |-> "Ok", bytes |-> v, err |-> "Ok"]
Err(e) == [kind |-> "Err", bytes |-> << >>, err |-> e]

\* compress, line 9: the capacity of the output vector.
compress_capacity(input) == output_buffer_size(Len(input))

\* The length cell set to the input's length.
compress_size_of_input(input, output_len) == Len(input)

\* compress, line 12: the length cell before the call, output.len().
compress_size(input, output_len) == output_len

\* The output's capacity passed as src_len.
compress_src_len_of_output(input, output_len) == output_len

\* compress, line 13: the src_len argument, input.len().
compress_src_len(input, output_len) == Len(input)

\* compress returning the whole output vector.
compress_result_untruncated(error, output, size) ==
    IF error = "Ok" THEN Ok(output) ELSE Err(error)

\* compress, lines 14-19: the result, from the status, the output vector's
\* bytes and the length cell after the call.
compress_result(error, output, size) ==
    IF error = "Ok" THEN Ok(vec_resize(output, size, 0)) ELSE Err(error)

\* decompress, line 23: the capacity of the output vector.
decompress_capacity(buffer_len, data) == buffer_len

\* The length cell set to the data's length.
decompress_output_len_of_data(buffer_len, data) == Len(data)

\* decompress, line 24: the length cell before the call.
decompress_output_len(buffer_len, data) == buffer_len

\* decompress returning the whole output vector.
decompress_result_untruncated(error, output, output_len) ==
    IF error = "Ok" THEN Ok(output) ELSE Err(error)

\* decompress, lines 26-31: the result.
decompress_result(error, output, output_len) ==
    IF error = "Ok" THEN Ok(vec_resize(output, output_len, 0)) ELSE Err(error)

\* compress(input) run alone, for an input the native compressor stores as
\* one literal run.
compress(input) ==
    LET cap    == compress_capacity(input)
        stream == lzo1x_1_compress(input)
        error  == CHOOSE e \in extern_return(LZO_E_OK) : TRUE
    IN  compress_result(error, Take(stream \o Zeros(cap - Len(stream)), cap),
                        Len(stream))

\* decompress(buffer_len, data) run alone.
decompress(buffer_len, data) ==
    LET got   == lzo1x_decompress_safe(data, decompress_output_len(buffer_len, data))
        error == CHOOSE e \in extern_return(got.status) : TRUE
    IN  decompress_result(error,
                          Take(got.out \o Zeros(buffer_len - Len(got.out)), buffer_len),
                          Len(got.out))

(***************************************************************************)
(* The state.                                                              *)
(***************************************************************************)
VARIABLES
    pc,          \* each caller's position: idle, a line of compress or decompress, done
    op,          \* the operation each caller last entered
    plain,       \* the bytes each caller compressed last
    derived,     \* how a decompressing caller got `data` from its payload
    input,       \* the call's byte slice: compress's input, decompress's data
    buffer_len,  \* decompress's buffer_len argument
    output,      \* the address of the call's output vector (0: none)
    wrkmem,      \* the address of the call's workspace array (0: none)
    size,        \* the length cell: compress's size, decompress's output_len
    error,       \* the status the native call returned
    result,      \* what the call returned to its caller
    mem,         \* the regions
    ub,          \* a native call was handed memory that is not its to access
    maxlen,      \* the longest input callers pass
    probe        \* the last evaluation of one of the pure functions

vars == <<pc, op, plain, derived, input, buffer_len, output, wrkmem, size,
          error, result, mem, ub, maxlen, probe>>

callvars == <<pc, op, plain, derived, input, buffer_len, output, wrkmem, size,
              error, result, mem, ub, maxlen>>

NoProbe == [fn |-> "none"]

\* The inputs callers compress.
Inputs == SeqsUpTo(InBytes, maxlen)

\* The ways a caller hands a payload to decompress: as it is, without its
\* last byte, with one byte more, or the uncompressed bytes by mistake.
Derivations == {"payload", "truncated", "extended", "plain"}

Derive(how, payload, original) ==
    CASE how = "payload"   -> payload
      [] how = "truncated" -> SubSeq(payload, 1, Len(payload) - 1)
      [] how = "extended"  -> Append(payload, 0)
      [] how = "plain"     -> original

InitCalls(present, longest) ==
    /\ pc = [c \in Calls |-> IF c \in present THEN "idle" ELSE "absent"]
    /\ op = [c \in Calls |-> "none"]
    /\ plain = [c \in Calls |-> << >>]
    /\ derived = [c \in Calls |-> "none"]
    /\ input = [c \in Calls |-> << >>]
    /\ buffer_len = [c \in Calls |-> 0]
    /\ output = [c \in Calls |-> 0]
    /\ wrkmem = [c \in Calls |-> 0]
    /\ size = [c \in Calls |-> 0]
    /\ error = [c \in Calls |-> "Ok"]
    /\ result = [c \in Calls |-> NoResult]
    /\ mem = [a \in Addr |-> FreeRegion]
    /\ ub = FALSE
    /\ maxlen = longest

\* One caller.
Init == InitCalls({1}, MaxLen) /\ probe = NoProbe

\* Every caller, concurrently.
InitConc == InitCalls(Calls, ConcLen) /\ probe = NoProbe

(***************************************************************************)
(* compress.                                                               *)
(***************************************************************************)
\* A caller calls compress(b).
compress_enter(c) ==
    /\ pc[c] = "idle"
    /\ \E b \in Inputs :
          /\ input' = [input EXCEPT ![c] = b]
          /\ plain' = [plain EXCEPT ![c] = b]
    /\ op' = [op EXCEPT ![c] = "compress"]
    /\ pc' = [pc EXCEPT ![c] = "compress_output"]
    /\ UNCHANGED <<derived, buffer_len, output, wrkmem, size, error, result,
                   mem, ub, maxlen, probe>>

\* Line 9: let mut output = vec![0u8; output_buffer_size(input.len())];
compress_output(c) ==
    /\ pc[c] = "compress_output"
    /\ LET a == alloc_output(mem)
       IN  /\ output' = [output EXCEPT ![c] = a]
           /\ mem' = [mem EXCEPT ![a] = ZeroedRegion(compress_capacity(input[c]))]
    /\ pc' = [pc EXCEPT ![c] = "compress_wrkmem"]
    /\ UNCHANGED <<op, plain, derived, input, buffer_len, wrkmem, size, error,
                   result, ub, maxlen, probe>>

\* Line 10: let mut wrkmem = [0u8; LZO1X_1_MEM_COMPRESS];
compress_wrkmem(c) ==
    /\ pc[c] = "compress_wrkmem"
    /\ LET a == alloc_wrkmem(mem)
       IN  /\ wrkmem' = [wrkmem EXCEPT ![c] = a]
           /\ mem' = [mem EXCEPT ![a] = ZeroedRegion(LZO1X_1_MEM_COMPRESS)]
    /\ pc' = [pc EXCEPT ![c] = "compress_size"]
    /\ UNCHANGED <<op, plain, derived, input, buffer_len, output, size, error,
                   result, ub, maxlen, probe>>

\* Line 12: let mut size = output.len();
compress_set_size(c) ==
    /\ pc[c] = "compress_size"
    /\ size' = [size EXCEPT ![c] = compress_size(input[c], mem[output[c]].len)]
    /\ pc' = [pc EXCEPT ![c] = "compress_call"]
    /\ UNCHANGED <<op, plain, derived, input, buffer_len, output, wrkmem, error,
                   result, mem, ub, maxlen, probe>>

\* Line 13: lzo1x_1_compress(input.as_ptr(), input.len(), output.as_mut_ptr(),
\* &mut size, wrkmem.as_mut_ptr()).  The native function reads src_len bytes
\* at src, writes the stream at dst without looking at the capacity in the
\* length cell, leaves the stream's length there and returns LZO_E_OK.  Bytes
\* it reads past the input are whatever lies there.
compress_call(c) ==
    /\ pc[c] = "compress_call"
    /\ LET src_len == compress_src_len(input[c], mem[output[c]].len)
           over    == src_len - Len(input[c])
       IN  \E x \in InBytes, e \in extern_return(LZO_E_OK) :
             LET src    == Take(input[c] \o Fill(over, x), src_len)
                 stream == lzo1x_1_compress(src)
                 dst    == mem[output[c]]
                 fits   == InBounds(dst, Len(stream))
             IN  /\ mem' = [mem EXCEPT ![output[c]] =
                               IF fits THEN Store(dst, stream)
                               ELSE Store(dst, Take(stream, dst.len))]
                 /\ size' = [size EXCEPT ![c] = Len(stream)]
                 /\ error' = [error EXCEPT ![c] = e]
                 /\ ub' = (ub \/ ~fits \/ over > 0
                              \/ ~InBounds(mem[wrkmem[c]], LZO1X_1_MEM_COMPRESS))
    /\ pc' = [pc EXCEPT ![c] = "compress_return"]
    /\ UNCHANGED <<op, plain, derived, input, buffer_len, output, wrkmem,
                   result, maxlen, probe>>

\* Lines 14-19: truncate and return, or return the error; wrkmem, and on an
\* error output, go out of scope.
compress_return(c) ==
    /\ pc[c] = "compress_return"
    /\ LET r == compress_result(error[c], Content(mem[output[c]], mem[output[c]].len),
                                size[c])
       IN  /\ result' = [result EXCEPT ![c] = r]
           /\ mem' = [a \in Addr |->
                        IF a = wrkmem[c] THEN FreeRegion
                        ELSE IF a = output[c]
                             THEN IF r.kind = "Ok"
                                  THEN [live |-> TRUE, len |-> Len(r.bytes),
                                        bytes |-> r.bytes]
                                  ELSE FreeRegion
                        ELSE mem[a]]
           /\ output' = [output EXCEPT ![c] = IF r.kind = "Ok" THEN @ ELSE 0]
    /\ wrkmem' = [wrkmem EXCEPT ![c] = 0]
    /\ pc' = [pc EXCEPT ![c] = "done"]
    /\ UNCHANGED <<op, plain, derived, input, buffer_len, size, error, ub,
                   maxlen, probe>>

(***************************************************************************)
(* decompress.                                                             *)
(***************************************************************************)
\* The capacities callers declare: up to two more than the longest input.
Capacities == 0 .. (maxlen + 2)

\* A caller that holds the payload of its compress call calls
\* decompress(m, data), data derived from the payload, and drops the payload.
decompress_enter(c) ==
    /\ pc[c] = "done"
    /\ op[c] = "compress"
    /\ result[c].kind = "Ok"
    /\ \E how \in Derivations, m \in Capacities :
          /\ derived' = [derived EXCEPT ![c] = how]
          /\ input' = [input EXCEPT ![c] = Derive(how, result[c].bytes, plain[c])]
          /\ buffer_len' = [buffer_len EXCEPT ![c] = m]
    /\ mem' = [mem EXCEPT ![output[c]] = FreeRegion]
    /\ output' = [output EXCEPT ![c] = 0]
    /\ result' = [result EXCEPT ![c] = NoResult]
    /\ op' = [op EXCEPT ![c] = "decompress"]
    /\ pc' = [pc EXCEPT ![c] = "decompress_output"]
    /\ UNCHANGED <<plain, wrkmem, size, error, ub, maxlen, probe>>

\* Line 23: let mut output = vec![0u8; buffer_len];
decompress_output(c) ==
    /\ pc[c] = "decompress_output"
    /\ LET a == alloc_output(mem)
       IN  /\ output' = [output EXCEPT ![c] = a]
           /\ mem' = [mem EXCEPT ![a] =
                         ZeroedRegion(decompress_capacity(buffer_len[c], input[c]))]
    /\ pc' = [pc EXCEPT ![c] = "decompress_output_len"]
    /\ UNCHANGED <<op, plain, derived, input, buffer_len, wrkmem, size, error,
                   result, ub, maxlen, probe>>

\* Line 24: let mut output_len = buffer_len;
decompress_set_output_len(c) ==
    /\ pc[c] = "decompress_output_len"
    /\ size' = [size EXCEPT ![c] = decompress_output_len(buffer_len[c], input[c])]
    /\ pc' = [pc EXCEPT ![c] = "decompress_call"]
    /\ UNCHANGED <<op, plain, derived, input, buffer_len, output, wrkmem, error,
                   result, mem, ub, maxlen, probe>>

\* Line 25: lzo1x_decompress_safe(data.as_ptr(), data.len(), output.as_mut_ptr(),
\* &mut output_len, null_mut()).  The native function writes at most the
\* capacity it finds in the length cell, leaves the count of bytes written
\* there and returns its status.
decompress_call(c) ==
    /\ pc[c] = "decompress_call"
    /\ LET got  == lzo1x_decompress_safe(input[c], size[c])
           dst  == mem[output[c]]
           fits == InBounds(dst, Len(got.out))
       IN  \E e \in extern_return(got.status) :
             /\ mem' = [mem EXCEPT ![output[c]] =
                           IF fits THEN Store(dst, got.out)
                           ELSE Store(dst, Take(got.out, dst.len))]
             /\ size' = [size EXCEPT ![c] = Len(got.out)]
             /\ error' = [error EXCEPT ![c] = e]
             /\ ub' = (ub \/ ~fits)
    /\ pc' = [pc EXCEPT ![c] = "decompress_return"]
    /\ UNCHANGED <<op, plain, derived, input, buffer_len, output, wrkmem,
                   result, maxlen, probe>>

\* Lines 26-31: truncate and return, or return the error and drop output.
decompress_return(c) ==
    /\ pc[c] = "decompress_return"
    /\ LET r == decompress_result(error[c],
                                  Content(mem[output[c]], mem[output[c]].len), size[c])
       IN  /\ result' = [result EXCEPT ![c] = r]
           /\ mem' = [mem EXCEPT ![output[c]] =
                         IF r.kind = "Ok"
                         THEN [live |-> TRUE, len |-> Len(r.bytes), bytes |-> r.bytes]
                         ELSE FreeRegion]
           /\ output' = [output EXCEPT ![c] = IF r.kind = "Ok" THEN @ ELSE 0]
    /\ pc' = [pc EXCEPT ![c] = "done"]
    /\ UNCHANGED <<op, plain, derived, input, buffer_len, wrkmem, size, error,
                   ub, maxlen, probe>>

\* The caller drops what the call returned.
release(c) ==
    /\ pc[c] = "done"
    /\ mem' = [a \in Addr |-> IF a = output[c] THEN FreeRegion ELSE mem[a]]
    /\ pc' = [pc EXCEPT ![c] = "idle"]
    /\ op' = [op EXCEPT ![c] = "none"]
    /\ plain' = [plain EXCEPT ![c] = << >>]
    /\ derived' = [derived EXCEPT ![c] = "none"]
    /\ input' = [input EXCEPT ![c] = << >>]
    /\ buffer_len' = [buffer_len EXCEPT ![c] = 0]
    /\ output' = [output EXCEPT ![c] = 0]
    /\ size' = [size EXCEPT ![c] = 0]
    /\ error' = [error EXCEPT ![c] = "Ok"]
    /\ result' = [result EXCEPT ![c] = NoResult]
    /\ UNCHANGED <<wrkmem, ub, maxlen, probe>>

Next ==
    \E c \in Calls :
        \/ compress_enter(c)
        \/ compress_output(c)
        \/ compress_wrkmem(c)
        \/ compress_set_size(c)
        \/ compress_call(c)
        \/ compress_return(c)
        \/ decompress_enter(c)
        \/ decompress_output(c)
        \/ decompress_set_output_len(c)
        \/ decompress_call(c)
        \/ decompress_return(c)
        \/ release(c)

\* One caller, calls one after the other.
Spec == Init /\ [][Next]_vars

\* Two callers, their calls' steps interleaved.
SpecConc == InitConc /\ [][Next]_vars

(***************************************************************************)
(* The pure functions on their own: each step evaluates one of them on an  *)
(* argument of its whole domain.                                           *)
(***************************************************************************)
\* How far below zero the native statuses tried reach.
StatusSpan == 100

\* Native statuses: every value of a variant, and values of none.
Statuses == (0 - StatusSpan) .. 1

\* output_buffer_size(n) for a usize n, in a debug build (an overflowing +
\* panics) or a release build (it wraps).
probe_output_buffer_size ==
    /\ \E n \in 0 .. (UsizeModulus - 1), build \in {"debug", "release"} :
          probe' = [fn |-> "output_buffer_size", n |-> n, build |-> build,
                    panicked |-> build = "debug" /\ output_buffer_size_overflows(n),
                    c |-> output_buffer_size(n)]
    /\ UNCHANGED callvars

\* A native entry point returns `status` through its declared return type.
probe_extern_return ==
    /\ \E status \in Statuses :
          \E e \in extern_return(status) :
              probe' = [fn |-> "extern_return", status |-> status, error |-> e]
    /\ UNCHANGED callvars

\* to_string() of a variant.
probe_Display ==
    /\ \E e \in LzoError :
          probe' = [fn |-> "Display", self |-> e, text |-> Display(e)]
    /\ UNCHANGED callvars

NextPure ==
    \/ probe_output_buffer_size
    \/ probe_extern_return
    \/ probe_Display

InitPure == InitCalls({}, 0) /\ probe = NoProbe

SpecPure == InitPure /\ [][NextPure]_vars

(***************************************************************************)
(* Claims about the pure functions, checked under SpecPure.                *)
(***************************************************************************)
\* C4: every native status resolves to exactly one LzoError value: the value
\* of a variant (0, -1 .. -12, -99) to that variant, and any other integer to
\* InternalError, without undefined behaviour.
C4_StatusTotality ==
    probe.fn = "extern_return" =>
        /\ probe.error \in LzoError
        /\ Cardinality(extern_return(probe.status)) = 1
        /\ probe.status \in Discriminants => Discriminant(probe.error) = probe.status
        /\ probe.status \notin Discriminants => probe.error = "InternalError"

\* No letter of the text is a capital (A .. Z are 65 .. 90).
IsLowercase(text) == \A i \in 1 .. Len(text) : text[i] \notin 65 .. 90

\* C8 as stated: every variant's description is entirely lowercase, and no
\* two variants share a description.
C8_AllLowercaseDistinct ==
    probe.fn = "Display" =>
        /\ IsLowercase(probe.text)
        /\ \A e \in LzoError \ {probe.self} : Display(e) # probe.text

\* C8 amended: every variant's description is fixed and not empty, no two
\* variants share one, and each is entirely lowercase but EofNotFound's, which
\* is "EOF not found": its first three letters, and only they, are capitals.
C8_LowercaseButEof ==
    probe.fn = "Display" =>
        /\ probe.text = Display(probe.self)
        /\ Len(probe.text) > 0
        /\ \A e \in LzoError \ {probe.self} : Display(e) # probe.text
        /\ probe.self # "EofNotFound" => IsLowercase(probe.text)
        /\ probe.self = "EofNotFound" =>
              /\ SubSeq(probe.text, 1, 3) = <<69, 79, 70>>
              /\ IsLowercase(SubSeq(probe.text, 4, Len(probe.text)))

\* C8's case: EofNotFound has been displayed, and its text has a capital.
C8_Witness ==
    /\ probe.fn = "Display"
    /\ probe.self = "EofNotFound"
    /\ ~IsLowercase(probe.text)

\* C9 as stated: for every usize n, output_buffer_size(n) returns exactly
\* n + n/16 + 64 + 3, without wrapping or panicking, so its result is at
\* least n + 67.
C9_ExactForEveryUsize ==
    probe.fn = "output_buffer_size" =>
        /\ ~probe.panicked
        /\ probe.c = probe.n + (probe.n \div 16) + 64 + 3
        /\ probe.c >= probe.n + 67

\* C9 amended: for every n a slice can be long (n <= isize::MAX),
\* output_buffer_size(n) returns exactly n + n/16 + 64 + 3 in either build,
\* so its result is at least n + 67.
C9_ExactForSliceLengths ==
    (probe.fn = "output_buffer_size" /\ probe.n <= IsizeMax) =>
        /\ ~probe.panicked
        /\ probe.c = probe.n + (probe.n \div 16) + 64 + 3
        /\ probe.c >= probe.n + 67

\* C9's case: the estimator has been applied to the longest slice there is,
\* in the build that checks for overflow.
C9_Witness ==
    /\ probe.fn = "output_buffer_size"
    /\ probe.n = IsizeMax
    /\ probe.build = "debug"
    /\ probe.c > IsizeMax

(***************************************************************************)
(* Claims about one caller's calls, checked under Spec.                    *)
(***************************************************************************)
Returned(c, o) == pc[c] = "done" /\ op[c] = o

\* A decompress call whose data is the payload compress returned for plain[c].
OfPayload(c) == op[c] = "decompress" /\ derived[c] = "payload"

\* C1: compress(b) succeeds for every b, and decompress(len(b), compress(b))
\* succeeds and returns b.
C1_RoundTrip ==
    \A c \in Calls :
        /\ Returned(c, "compress") => result[c].kind = "Ok"
        /\ (Returned(c, "decompress") /\ OfPayload(c)
                /\ buffer_len[c] = Len(plain[c]))
              => result[c] = Ok(plain[c])

\* C1's case: the longest input has made the round trip.
C1_Witness ==
    \E c \in Calls :
        /\ Returned(c, "decompress") /\ OfPayload(c)
        /\ Len(plain[c]) = maxlen
        /\ buffer_len[c] = Len(plain[c])
        /\ result[c] = Ok(plain[c])

\* C2: with a declared maximum larger than len(b), decompressing b's payload
\* succeeds, and the result is b, of length len(b) and not the maximum.
C2_SurplusCapacity ==
    \A c \in Calls :
        (Returned(c, "decompress") /\ OfPayload(c) /\ buffer_len[c] > Len(plain[c]))
          => /\ result[c] = Ok(plain[c])
             /\ Len(result[c].bytes) = Len(plain[c])
             /\ size[c] = Len(plain[c])

\* C2's case: a payload decompressed with one byte of capacity to spare.
C2_Witness ==
    \E c \in Calls :
        /\ Returned(c, "decompress") /\ OfPayload(c)
        /\ Len(plain[c]) = maxlen
        /\ buffer_len[c] = Len(plain[c]) + 1
        /\ result[c].kind = "Ok"

OverrunKinds == {"InputOverrun", "OutputOverrun", "LookbehindOverrun"}

\* C3: with a declared maximum m smaller than len(b), decompressing b's
\* payload returns an error of an overrun kind and no payload, and the native
\* call writes nothing beyond the m bytes of the output vector.
C3_InsufficientCapacity ==
    \A c \in Calls :
        (OfPayload(c) /\ buffer_len[c] < Len(plain[c])) =>
            /\ ~ub
            /\ pc[c] = "decompress_return" =>
                  /\ error[c] \in OverrunKinds
                  /\ mem[output[c]].len = buffer_len[c]
                  /\ Len(mem[output[c]].bytes) <= buffer_len[c]
            /\ pc[c] = "done" =>
                  /\ result[c].kind = "Err"
                  /\ result[c].err \in OverrunKinds
                  /\ result[c].bytes = << >>

\* C3's case: a payload decompressed into a vector one byte too short.
C3_Witness ==
    \E c \in Calls :
        /\ Returned(c, "decompress") /\ OfPayload(c)
        /\ Len(plain[c]) = maxlen
        /\ buffer_len[c] = Len(plain[c]) - 1
        /\ result[c].kind = "Err"

\* C5: a payload compress returns for b is at most
\* len(b) + len(b)/16 + 64 + 3 bytes long.
C5_SizeBound ==
    \A c \in Calls :
        (Returned(c, "compress") /\ result[c].kind = "Ok") =>
            Len(result[c].bytes) <= Len(plain[c]) + (Len(plain[c]) \div 16) + 64 + 3

\* C5's case: compress has returned the payload of the longest input.
C5_Witness ==
    \E c \in Calls :
        /\ Returned(c, "compress")
        /\ Len(plain[c]) = maxlen
        /\ result[c].kind = "Ok"
        /\ Len(result[c].bytes) > Len(plain[c])

\* C6: when compress or decompress returns Ok(p), p is as long as the length
\* cell says after the native call and is the output vector's prefix of that
\* length as the native call left it, the vector being only shortened; on any
\* other status the call returns the error alone.
C6_Truncation ==
    [][\A c \in Calls :
          (pc[c] \in {"compress_return", "decompress_return"} /\ pc'[c] = "done") =>
              /\ result'[c].kind = "Ok" =>
                    /\ error[c] = "Ok"
                    /\ Len(result'[c].bytes) = size[c]
                    /\ size[c] <= mem[output[c]].len
                    /\ result'[c].bytes = Content(mem[output[c]], size[c])
              /\ error[c] # "Ok" => result'[c] = Err(error[c])
      ]_vars

\* C6's case: decompress has returned a payload shorter than its output
\* vector was.
C6_Witness ==
    \E c \in Calls :
        /\ Returned(c, "decompress") /\ OfPayload(c)
        /\ result[c].kind = "Ok"
        /\ Len(result[c].bytes) = size[c]
        /\ 0 < size[c] /\ size[c] < buffer_len[c]

\* C10: from its allocation to the native call the output vector's length is
\* the formula bound (compress) or the declared maximum (decompress), and at
\* the call the length cell holds that length.
C10_CapacityAtCall ==
    \A c \in Calls :
        /\ pc[c] \in {"compress_wrkmem", "compress_size", "compress_call"} =>
              /\ mem[output[c]].live
              /\ mem[output[c]].len = output_buffer_size(Len(input[c]))
        /\ pc[c] = "compress_call" => size[c] = mem[output[c]].len
        /\ pc[c] \in {"decompress_output_len", "decompress_call"} =>
              /\ mem[output[c]].live
              /\ mem[output[c]].len = buffer_len[c]
        /\ pc[c] = "decompress_call" => size[c] = mem[output[c]].len

\* C10's case: compress is about to make the native call for the longest
\* input.
C10_Witness ==
    \E c \in Calls :
        /\ pc[c] = "compress_call"
        /\ Len(input[c]) = maxlen
        /\ size[c] = Len(input[c]) + 67

(***************************************************************************)
(* The claim about concurrent calls, checked under SpecConc.               *)
(***************************************************************************)
\* The regions a caller's call holds.
Owned(c) == {output[c], wrkmem[c]} \ {0}

\* What the call returns when nothing else runs.
Alone(c) ==
    IF op[c] = "compress" THEN compress(input[c])
    ELSE decompress(buffer_len[c], input[c])

\* C7: under any interleaving of two callers' calls, no region is held by
\* both, every live region is held by one call (there is no memory of the
\* process's own) and an idle caller holds none, no native call touches
\* memory outside its own regions, and every call returns what it would
\* return run alone.
C7_Independent ==
    /\ \A c, d \in Calls : c # d => Owned(c) \cap Owned(d) = {}
    /\ \A c \in Calls : wrkmem[c] # 0 => wrkmem[c] # output[c]
    /\ \A a \in Addr : mem[a].live => \E c \in Calls : a \in Owned(c)
    /\ \A c \in Calls : Owned(c) \subseteq {a \in Addr : mem[a].live}
    /\ \A c \in Calls : pc[c] = "idle" => Owned(c) = {}
    /\ ~ub
    /\ \A c \in Calls : pc[c] = "done" => result[c] = Alone(c)

\* C7's case: one caller's decompress has returned its bytes while the
\* other's compress was between its native call and its return.
C7_Witness ==
    \E c, d \in Calls :
        /\ c # d
        /\ Returned(c, "decompress")
        /\ result[c].kind = "Ok"
        /\ Len(result[c].bytes) > 0
        /\ pc[d] = "compress_return"
        /\ wrkmem[d] # 0

====
